---- MODULE Spec2Model ----
(***************************************************************************)
(* A model of the BitSet library in src/src/lib.rs: a fixed-length bitset  *)
(* packed into unsigned machine words, its constructors, queries and       *)
(* mutators, and the SWAR population count bit_count64.                     *)
(*                                                                         *)
(* The machine word of the source is u64.  The model keeps the word        *)
(* arithmetic (wrap-around, shifts, masks) but at a width of WordBits = 16 *)
(* bits, with the repeating-byte masks of bit_count64 built for that       *)
(* width, so that the words can be enumerated.  Everything that the source *)
(* writes as 64 is WordBits here, and 56 is WordBits - 8.                  *)
(***************************************************************************)
EXTENDS Integers, Sequences, FiniteSets

VARIABLES
    bits,    \* BitSet.bits : Vec<u64>, as a sequence (word n of the code is bits[n + 1])
    nbits,   \* BitSet.nbits
    ctor,    \* history: the constructor call that built the bitset
    op,      \* history: name of the last call ("none" before construction)
    arg,     \* history: bit_idx of the last set/flip call
    val,     \* history: v of the last set call
    prev,    \* history: [bits, nbits] before the last call
    rep,     \* history: the last call repeats the call before it (same name, same bit_idx)
    legal,   \* history: every set/flip call so far had bit_idx < size()
    u,       \* bit_count64: the argument
    x,       \* bit_count64: the local x
    ret,     \* bit_count64: the returned value
    pc,      \* bit_count64: the next line to run
    ovf      \* bit_count64: some checked subtraction or addition left the word range

vars == <<bits, nbits, ctor, op, arg, val, prev, rep, legal, u, x, ret, pc, ovf>>
bitsetVars == <<bits, nbits, ctor, op, arg, val, prev, rep, legal>>
popVars == <<u, x, ret, pc, ovf>>

----------------------------------------------------------------------------
(* Bounds and inputs *)

WordBits == 16
MaxCap == 18
MaxVecLen == 2

Modulus == 2 ^ WordBits
AllOnes == Modulus - 1
Words == 0 .. AllOnes

\* the words the constructors from_u64 and from_vec64 are given
Seeds == {0, 2, AllOnes}
VecInputs == UNION {[1 .. n -> Seeds] : n \in 0 .. MaxVecLen}
\* the indices set and flip are called with: the first and the last bit of the
\* first word, the first bit of the second word and of the third; against the
\* lengths 0 .. MaxCap each of them is in turn valid, a padding bit, or past
\* the last word
IndexSet == {0, WordBits - 1, WordBits, 2 * WordBits}

----------------------------------------------------------------------------
(* Word arithmetic *)

Wrap(n) == n % Modulus

Shr(n, k) == n \div (2 ^ k)

Shl(n, k) == Wrap(n * (2 ^ k))

Not(n) == AllOnes - n

RECURSIVE And(_, _)
And(a, b) ==
    IF a = 0 \/ b = 0 THEN 0
    ELSE (a % 2) * (b % 2) + 2 * And(a \div 2, b \div 2)

RECURSIVE Or(_, _)
Or(a, b) ==
    IF a = 0 THEN b
    ELSE IF b = 0 THEN a
    ELSE (IF a % 2 = 1 \/ b % 2 = 1 THEN 1 ELSE 0) + 2 * Or(a \div 2, b \div 2)

\* a word whose every byte is byte: 0x5555555555555555 is RepByte(85)
RECURSIVE RepBytes(_, _)
RepBytes(byte, n) == IF n = 0 THEN 0 ELSE byte + 256 * RepBytes(byte, n - 1)
RepByte(byte) == RepBytes(byte, WordBits \div 8)

Mask55 == RepByte(85)
Mask33 == RepByte(51)
Mask0F == RepByte(15)
Mul01 == RepByte(1)

----------------------------------------------------------------------------
(* bit_count64, line by line *)

Line20Raw(w) == w - And(Shr(w, 1), Mask55)
Line20(w) == Wrap(Line20Raw(w))

\* Line21Raw with the fold shifted by one bit instead of two
Line21RawShiftOne(y) == And(y, Mask33) + And(Shr(y, 1), Mask33)

Line21Raw(y) == And(y, Mask33) + And(Shr(y, 2), Mask33)
Line21(y) == Wrap(Line21Raw(y))

Line22Raw(y) == y + Shr(y, 4)
Line22Product(y) == And(Wrap(Line22Raw(y)), Mask0F) * Mul01
Line22(y) == Shr(Wrap(Line22Product(y)), WordBits - 8)

bit_count64(w) == Line22(Line21(Line20(w)))

InWord(n) == n >= 0 /\ n <= AllOnes

----------------------------------------------------------------------------
(* BitSet: private and query functions, over a given (bits, nbits) *)

blocks_of(nb) ==
    IF nb % WordBits = 0 THEN nb \div WordBits ELSE nb \div WordBits + 1

blocks == blocks_of(nbits)

size == nbits

RECURSIVE SumCounts(_, _)
SumCounts(b, n) ==
    IF n = 0 THEN 0 ELSE SumCounts(b, n - 1) + bit_count64(b[n])

\* count_of summing only the whole words, nbits / 64 of them
count_of_floor(b, nb) == SumCounts(b, nb \div WordBits)

count_of(b, nb) == SumCounts(b, blocks_of(nb))

count == count_of(bits, nbits)

\* test_of counting the offset from the most-significant bit
test_of_msb(b, bit_idx) ==
    LET block_idx == bit_idx \div WordBits
        mod_bit_idx == bit_idx % WordBits
        n == b[block_idx + 1]
    IN  And(Shr(n, WordBits - 1 - mod_bit_idx), 1) = 1

test_of(b, bit_idx) ==
    LET block_idx == bit_idx \div WordBits
        mod_bit_idx == bit_idx % WordBits
        n == b[block_idx + 1]
    IN  And(Shr(n, mod_bit_idx), 1) = 1

test(bit_idx) == test_of(bits, bit_idx)

any_of(b, nb) == \E i \in 0 .. blocks_of(nb) - 1 : b[i + 1] # 0

any == any_of(bits, nbits)

none == ~any

----------------------------------------------------------------------------
(* BitSet: the new word sequence each mutator leaves *)

\* set_bits whose clearing branch leaves out the complement of the mask
set_bits_nocomplement(b, bit_idx, v) ==
    LET block_idx == bit_idx \div WordBits
        mod_bit_idx == bit_idx % WordBits
    IN  IF block_idx < Len(b)
        THEN [b EXCEPT ![block_idx + 1] =
                 IF v THEN Or(@, Shl(1, mod_bit_idx))
                 ELSE And(@, Shl(1, mod_bit_idx))]
        ELSE b

set_bits(b, bit_idx, v) ==
    LET block_idx == bit_idx \div WordBits
        mod_bit_idx == bit_idx % WordBits
    IN  IF block_idx < Len(b)
        THEN [b EXCEPT ![block_idx + 1] =
                 IF v THEN Or(@, Shl(1, mod_bit_idx))
                 ELSE And(@, Not(Shl(1, mod_bit_idx)))]
        ELSE b

\* reset_bits zeroing only the whole words, nbits / 64 of them
reset_bits_floor(b, nb) ==
    [i \in 1 .. Len(b) |-> IF i <= nb \div WordBits THEN 0 ELSE b[i]]

reset_bits(b, nb) ==
    [i \in 1 .. Len(b) |-> IF i <= blocks_of(nb) THEN 0 ELSE b[i]]

\* flip_bits that only ever sets the bit
flip_bits_or(b, bit_idx) ==
    LET block_idx == bit_idx \div WordBits
        mod_bit_idx == bit_idx % WordBits
    IN  IF block_idx < Len(b)
        THEN [b EXCEPT ![block_idx + 1] = Or(@, Shl(1, mod_bit_idx))]
        ELSE b

\* flip_bits that takes the last word when the index has no word
flip_bits_clamp(b, bit_idx) ==
    LET mod_bit_idx == bit_idx % WordBits
        block_idx == IF bit_idx \div WordBits < Len(b)
                     THEN bit_idx \div WordBits ELSE Len(b) - 1
    IN  IF block_idx >= 0
        THEN [b EXCEPT ![block_idx + 1] =
                 IF And(Shr(@, mod_bit_idx), 1) = 1
                 THEN And(@, Not(Shl(1, mod_bit_idx)))
                 ELSE Or(@, Shl(1, mod_bit_idx))]
        ELSE b

flip_bits(b, bit_idx) ==
    LET block_idx == bit_idx \div WordBits
        mod_bit_idx == bit_idx % WordBits
    IN  IF block_idx < Len(b)
        THEN [b EXCEPT ![block_idx + 1] =
                 IF And(Shr(@, mod_bit_idx), 1) = 1
                 THEN And(@, Not(Shl(1, mod_bit_idx)))
                 ELSE Or(@, Shl(1, mod_bit_idx))]
        ELSE b

\* flip_all_bits complementing only the whole words, nbits / 64 of them
flip_all_bits_floor(b, nb) ==
    [i \in 1 .. Len(b) |-> IF i <= nb \div WordBits THEN Not(b[i]) ELSE b[i]]

flip_all_bits(b, nb) ==
    [i \in 1 .. Len(b) |-> IF i <= blocks_of(nb) THEN Not(b[i]) ELSE b[i]]

----------------------------------------------------------------------------
(* The bitset as a state machine *)

NoCtor == [name |-> "none", n |-> 0, seq |-> <<>>]

Init ==
    /\ bits = <<>>
    /\ nbits = 0
    /\ ctor = NoCtor
    /\ op = "none"
    /\ arg = 0
    /\ val = FALSE
    /\ prev = [bits |-> <<>>, nbits |-> 0]
    /\ rep = FALSE
    /\ legal = TRUE
    /\ u = 0
    /\ x = 0
    /\ ret = 0
    /\ pc = "idle"
    /\ ovf = FALSE

Constructed(name, n, seq, newBits, newNbits) ==
    /\ op = "none"
    /\ pc = "idle"
    /\ bits' = newBits
    /\ nbits' = newNbits
    /\ ctor' = [name |-> name, n |-> n, seq |-> seq]
    /\ op' = "ctor"
    /\ UNCHANGED <<arg, val, prev, rep, legal>>
    /\ UNCHANGED popVars

new == Constructed("new", 0, <<>>, <<>>, 0)

\* with_capacity_bits pushing only nbits / 64 words
with_capacity_bits_floor(n) == [i \in 1 .. n \div WordBits |-> 0]

with_capacity_bits(n) == [i \in 1 .. blocks_of(n) |-> 0]

with_capacity ==
    \E n \in 0 .. MaxCap :
        Constructed("with_capacity", n, <<>>, with_capacity_bits(n), n)

from_u64 ==
    \E v \in Seeds :
        Constructed("from_u64", 0, <<v>>, <<v>>, WordBits)

from_vec64 ==
    \E vec \in VecInputs :
        Constructed("from_vec64", 0, vec, vec, Len(vec) * WordBits)

\* a call of a mutator: the program state changes, the history records the call
Called(name, bit_idx, v, newBits) ==
    /\ op # "none"
    /\ bits' = newBits
    /\ UNCHANGED <<nbits, ctor>>
    /\ op' = name
    /\ arg' = bit_idx
    /\ val' = v
    /\ prev' = [bits |-> bits, nbits |-> nbits]
    /\ rep' = (op = name /\ arg = bit_idx)
    /\ legal' = (legal /\ (name \in {"set", "flip"} => bit_idx < nbits))
    /\ UNCHANGED popVars

set ==
    \E bit_idx \in IndexSet, v \in BOOLEAN :
        Called("set", bit_idx, v, set_bits(bits, bit_idx, v))

\* reset and flip_all index bits[i] for every i < blocks(): a missing word is a panic
reset ==
    /\ blocks <= Len(bits)
    /\ Called("reset", 0, FALSE, reset_bits(bits, nbits))

flip ==
    \E bit_idx \in IndexSet :
        Called("flip", bit_idx, FALSE, flip_bits(bits, bit_idx))

flip_all ==
    /\ blocks <= Len(bits)
    /\ Called("flip_all", 0, FALSE, flip_all_bits(bits, nbits))

Next ==
    \/ new
    \/ with_capacity
    \/ from_u64
    \/ from_vec64
    \/ set
    \/ reset
    \/ flip
    \/ flip_all

Spec == Init /\ [][Next]_vars

----------------------------------------------------------------------------
(* bit_count64 as a state machine over every word *)

InitPop ==
    /\ bits = <<>>
    /\ nbits = 0
    /\ ctor = NoCtor
    /\ op = "none"
    /\ arg = 0
    /\ val = FALSE
    /\ prev = [bits |-> <<>>, nbits |-> 0]
    /\ rep = FALSE
    /\ legal = TRUE
    /\ u \in Words
    /\ x = 0
    /\ ret = 0
    /\ pc = "line20"
    /\ ovf = FALSE

RunLine20 ==
    /\ pc = "line20"
    /\ x' = Line20(u)
    /\ ovf' = (ovf \/ ~InWord(Line20Raw(u)))
    /\ pc' = "line21"
    /\ UNCHANGED <<u, ret>>
    /\ UNCHANGED bitsetVars

RunLine21 ==
    /\ pc = "line21"
    /\ x' = Line21(x)
    /\ ovf' = (ovf \/ ~InWord(Line21Raw(x)))
    /\ pc' = "line22"
    /\ UNCHANGED <<u, ret>>
    /\ UNCHANGED bitsetVars

RunLine22 ==
    /\ pc = "line22"
    /\ ret' = Line22(x)
    /\ ovf' = (ovf \/ ~InWord(Line22Raw(x)))
    /\ pc' = "done"
    /\ UNCHANGED <<u, x>>
    /\ UNCHANGED bitsetVars

NextPop == RunLine20 \/ RunLine21 \/ RunLine22

SpecPop == InitPop /\ [][NextPop]_vars

----------------------------------------------------------------------------
(* What the properties are measured against: bits read off by division, *)
(* independent of the shifts and masks of the code                        *)

BitOf(w, k) == (w \div (2 ^ k)) % 2

\* bit j of a word sequence, numbering the bits of word n from n * WordBits
BitAt(b, j) == BitOf(b[j \div WordBits + 1], j % WordBits)

RECURSIVE PopCount(_)
PopCount(w) == IF w = 0 THEN 0 ELSE (w % 2) + PopCount(w \div 2)

RECURSIVE SumPop(_, _)
SumPop(b, n) == IF n = 0 THEN 0 ELSE SumPop(b, n - 1) + PopCount(b[n])

Ceil(n) == (n + WordBits - 1) \div WordBits

\* the length the constructor call fixes
CtorLength ==
    IF ctor.name = "with_capacity" THEN ctor.n ELSE WordBits * Len(ctor.seq)

AllocatedBits(b) == 0 .. Len(b) * WordBits - 1

\* some bit past size() in the last word is 1
PaddingSet(b, nb) == \E j \in nb .. Len(b) * WordBits - 1 : BitAt(b, j) = 1

----------------------------------------------------------------------------
(* Properties *)

\* C1: after set(i, v) with i < size(), test(i) returns v: true after
\* set(i, true), and false after a subsequent set(i, false).
C1_SetThenTest ==
    (op = "set" /\ arg < size) => (test(arg) = val)

\* C1 witness: set(i, false) has just followed a set(i, .) that left bit i 1
C1_Witness ==
    /\ op = "set" /\ rep /\ ~val /\ arg < size
    /\ test_of(prev.bits, arg)
    /\ ~test(arg)

\* C2: flip(i) with i < size() negates test(i), and a second flip(i) right
\* after the first leaves the words as they were before the first.
C2_FlipInvolution ==
    [][(op' = "flip" /\ arg' < size')
          => /\ test_of(bits', arg') = ~test_of(bits, arg')
             /\ (op = "flip" /\ arg = arg') => bits' = prev.bits]_vars

\* C2 witness: flip(i) twice in succession on a bit that is 1 again
C2_Witness ==
    op = "flip" /\ rep /\ arg < size /\ test(arg) /\ ~test_of(prev.bits, arg)

\* C3: flip_all() complements every bit of every allocated word, padding
\* included, so test(i) is negated for every i < size(); a second flip_all()
\* right after the first restores every word.
C3_FlipAllInvolution ==
    [][op' = "flip_all"
          => /\ Len(bits') = Len(bits)
             /\ \A j \in AllocatedBits(bits) : BitAt(bits', j) = 1 - BitAt(bits, j)
             /\ \A i \in 0 .. size - 1 : test_of(bits', i) = ~test_of(bits, i)
             /\ op = "flip_all" => bits' = prev.bits]_vars

\* C3 witness: flip_all() twice in succession on a bitset with padding bits,
\* some of them 1 and some 0
C3_Witness ==
    /\ op = "flip_all" /\ rep
    /\ size % WordBits # 0
    /\ PaddingSet(bits, size)
    /\ PaddingSet(prev.bits, size)

\* C4: after reset(), any() is false, none() is true, count() is 0 and
\* test(i) is false for every i < size(), whatever came before.
C4_ResetClears ==
    op = "reset"
        => /\ ~any
           /\ none
           /\ count = 0
           /\ \A i \in 0 .. size - 1 : ~test(i)

\* C4 witness: reset() of a bitset whose padding bits were 1
C4_Witness ==
    op = "reset" /\ legal /\ size > 0 /\ PaddingSet(prev.bits, size) /\ count = 0

\* C5: count() is the number of 1-bits of all allocated words, padding bits
\* included.
C5_CountAllWords ==
    op # "none" => count = SumPop(bits, Len(bits))

\* C5 witness: count() exceeds size(), so it counts padding bits
C5_Witness ==
    op # "none" /\ legal /\ PaddingSet(bits, size) /\ count > size

\* C6: in every state reached by a constructor and calls of set, flip, reset
\* and flip_all (here: with every index below size()), none() is true exactly
\* when test(i) is false for every i < size(), and any() is its negation.
C6_NoneIffAllClear ==
    (op # "none" /\ legal)
        => /\ none <=> \A i \in 0 .. size - 1 : ~test(i)
           /\ any <=> ~none

\* C7: set(index, v) and flip(index) leave size(), the number of words and
\* every bit but the addressed one as they were, and leave everything as it
\* was when index has no word.
C7_SingleBitFrame ==
    op \in {"set", "flip"}
        => /\ nbits = prev.nbits
           /\ Len(bits) = Len(prev.bits)
           /\ \A j \in AllocatedBits(bits) :
                 j # arg => BitAt(bits, j) = BitAt(prev.bits, j)
           /\ arg \div WordBits >= Len(prev.bits) => bits = prev.bits

\* C7 witness: flip(index) of a non-zero bitset, index beyond the last word
C7_Witness ==
    /\ op = "flip"
    /\ arg \div WordBits >= Len(bits)
    /\ any
    /\ bits = prev.bits

\* C8: the number of words is ceil(size() / 64), size() is the length the
\* constructor fixed, and blocks() is the number of words, so that no loop
\* over 0..blocks() and no test(i) with i < size() indexes a missing word.
C8_WordsMatchLength ==
    op # "none"
        => /\ Len(bits) = Ceil(size)
           /\ size = CtorLength
           /\ blocks = Len(bits)
           /\ \A i \in 0 .. size - 1 : i \div WordBits < Len(bits)

\* C8 witness: a with_capacity bitset of two words, the second one partial,
\* after mutator calls
C8_Witness ==
    /\ ctor.name = "with_capacity"
    /\ size % WordBits # 0
    /\ Len(bits) = 2
    /\ op = "flip_all" /\ rep

\* C9: from_vec64(seq) has size() = 64 * len(seq) and test(i) is bit i mod 64,
\* from the least-significant end, of seq[i div 64]; from_u64(v) is
\* from_vec64([v]).
C9_FromWords ==
    (op = "ctor" /\ ctor.name \in {"from_u64", "from_vec64"})
        => /\ size = WordBits * Len(ctor.seq)
           /\ \A i \in 0 .. size - 1 :
                 test(i) = (BitOf(ctor.seq[i \div WordBits + 1], i % WordBits) = 1)
           /\ ctor.name = "from_u64" => Len(ctor.seq) = 1

\* C9 witness: from_vec64([all ones, 0]): the last bit of the first word is
\* 1 and the first bit of the second is 0
C9_Witness ==
    /\ op = "ctor" /\ ctor.name = "from_vec64"
    /\ ctor.seq = <<AllOnes, 0>>
    /\ test(WordBits - 1)
    /\ ~test(WordBits)

\* C10: bit_count64(w) is the number of 1-bits of w; the subtraction of line
\* 20 and the additions of lines 21 and 22 stay within the word.
C10_PopCount ==
    /\ ~ovf
    /\ pc = "done" => ret = PopCount(u)

\* C10 witness: bit_count64 of the all-ones word, where the product of line
\* 22 is wider than the word
C10_Witness ==
    /\ pc = "done"
    /\ u = AllOnes
    /\ ret = WordBits
    /\ Line22Product(x) > AllOnes

====
